---- MODULE Spec2Model ----
(***************************************************************************)
(* ComponentVersionReconciler of ocm-controller                            *)
(* (controllers/componentversion_controller.go): verification gate,        *)
(* root descriptor upsert, recursive reference expansion, status patch.    *)
(*                                                                         *)
(* Strings that the code inspects or rewrites (component names, versions,  *)
(* object names) are sequences of one-character strings.                   *)
(***************************************************************************)
EXTENDS Naturals, Sequences, FiniteSets, TLC

\* ------------------------------------------------------------------ bounds
\* Reconcile invocations in one behaviour, over all RootIntents
MaxRuns == 3
\* nesting depth of parseReferences that is explored (the code has no bound)
MaxDepth == 3
\* events of the environment in one behaviour: descriptor revisions published
\* upstream, spec edits, status edits and deletions of RootIntents
MaxEvents == 1

\* ------------------------------------------------------------------ data
\* Interval of the test object: 10 * time.Minute
TenMinutes == 10

Roots == {"r1", "r2"}
Namespace == "default"

CompR == <<"o", "/", "r">>
CompC == <<"o", "/", "c">>
CompG == <<"o", "/", "g">>
CompD == <<"o", "-", "c">>
Components == {CompR, CompC, CompG, CompD}
V1 == <<"1">>

\* v1.Identity: a map; nil and the empty map are {}
NoIdentity == {}
IdA == {<<"k", "a">>}
IdB == {<<"k", "b">>}

\* one entry of ocmdesc.References
Ref(n, c, v, id) ==
  [name |-> n, componentName |-> c, version |-> v, extraIdentity |-> id]

\* an upstream component descriptor; rev stands for the rest of its content
\* (provider, sources, resources)
Desc(n, v, refs) == [name |-> n, version |-> v, references |-> refs, rev |-> 0]

NoDesc == Desc(<<>>, <<>>, <<>>)

\* ------------------------------------------------- constructComponentName
\* strings.ReplaceAll(s, old, new) for one-character old and new
ReplaceAll(s, old, new) ==
  [i \in 1..Len(s) |-> IF s[i] = old THEN new ELSE s[i]]

\* canonical text of an identity map with at most one entry
IdentityText(identity) ==
  IF identity = {} THEN <<>>
  ELSE LET p == CHOOSE q \in identity : TRUE IN <<p[1], "=", p[2]>>

\* the anonymous struct literal: its three fields are lower-case, hence unexported
NamingScheme(name, version, identity) ==
  << [field |-> "componentName", exported |-> FALSE, text |-> name],
     [field |-> "version", exported |-> FALSE, text |-> version],
     [field |-> "identity", exported |-> FALSE, text |-> IdentityText(identity)] >>

IsExported(f) == f.exported

RECURSIVE HashFields(_)
HashFields(fields) ==
  IF fields = <<>> THEN <<>>
  ELSE Head(fields).text \o <<";">> \o HashFields(Tail(fields))

\* hash.Hash(namingScheme, nil): hashstructure visits the exported fields of a
\* struct only (a field with a non-empty PkgPath is skipped); the value is kept
\* as the text of what was visited, i.e. a collision-free hash of it
Hash(namingScheme) == HashFields(SelectSeq(namingScheme, IsExported))

\* fmt.Sprintf("%s-%s-%d", strings.ReplaceAll(name, "/", "-"), version, h)
constructComponentName(name, version, identity) ==
  ReplaceAll(name, "/", "-") \o <<"-">> \o version \o <<"-">>
    \o Hash(NamingScheme(name, version, identity))

\* ----------------------------------------------------------- descriptors
\* compdesc.DescriptorVersion.ConvertFrom: the v3alpha1 form keeps name and
\* version in the metadata and everything else in Spec
ConvertFrom(d) ==
  [name |-> d.name, version |-> d.version,
   Spec |-> [references |-> d.references, rev |-> d.rev]]

NoSpec == [ComponentVersionSpec |-> [references |-> <<>>, rev |-> 0], Version |-> <<>>]

\* v1alpha1.ComponentDescriptor as held by the API server; rv is its
\* resourceVersion (0: not created yet, CreationTimestamp is zero), uid the UID
\* the API server gives it at creation (the creating invocation and its write)
Descriptor(ns, name, owners, spec, rv) ==
  [ns |-> ns, name |-> name, owners |-> owners, spec |-> spec, rv |-> rv,
   uid |-> <<>>]

NoDescriptor == Descriptor(Namespace, <<>>, {}, NoSpec, 0)

\* v1alpha1.Reference
Reference(name, version, key, ns, id, refs) ==
  [name |-> name, version |-> version,
   componentDescriptorRef |-> [name |-> key, namespace |-> ns],
   extraIdentity |-> id, references |-> refs]

NoReference == Reference(<<>>, <<>>, <<>>, "", {}, <<>>)

\* v1alpha1.ComponentVersionStatus
NoStatus == [componentDescriptor |-> NoReference, verified |-> FALSE]

\* a RootIntent (v1alpha1.ComponentVersion) as built by the test; generation 0
\* marks an object that was never created
ComponentVersion(exists, component) ==
  [exists |-> exists, ns |-> Namespace, generation |-> IF exists THEN 1 ELSE 0,
   spec |-> [component |-> component, version |-> V1,
             interval |-> TenMinutes, expand |-> TRUE],
   status |-> NoStatus]

\* ctrl.Result and the error returned with it
Result(requeueAfter, err) == [requeueAfter |-> requeueAfter, err |-> err]
NoResult == Result(0, "none")

\* ComponentVersion.GetRequeueAfter
GetRequeueAfter(obj) == obj.spec.interval

\* ------------------------------------------------------------- scenarios
\* a repository holding the components cs, each with the references refs[c]
RepoOf(cs, refs) == [c \in cs |-> Desc(c, V1, refs[c])]

OneRoot == [r \in Roots |-> ComponentVersion(r = "r1", IF r = "r1" THEN CompR ELSE <<>>)]
TwoRoots == [r \in Roots |-> ComponentVersion(TRUE, IF r = "r1" THEN CompR ELSE CompC)]

\* root -> c -> g
Chain ==
  [repo |-> RepoOf({CompR, CompC, CompG},
                   (CompR :> <<Ref(<<"c">>, CompC, V1, NoIdentity)>>) @@
                   (CompC :> <<Ref(<<"g">>, CompG, V1, NoIdentity)>>) @@
                   (CompG :> <<>>)),
   cvs |-> OneRoot]
\* root -> [c, g], c -> g: g is reached on two paths
Diamond ==
  [repo |-> RepoOf({CompR, CompC, CompG},
                   (CompR :> <<Ref(<<"x">>, CompC, V1, NoIdentity),
                               Ref(<<"y">>, CompG, V1, NoIdentity)>>) @@
                   (CompC :> <<Ref(<<"z">>, CompG, V1, NoIdentity)>>) @@
                   (CompG :> <<>>)),
   cvs |-> OneRoot]
\* root -> [c with identity a, c with identity b]
Twins ==
  [repo |-> RepoOf({CompR, CompC},
                   (CompR :> <<Ref(<<"x">>, CompC, V1, IdA), Ref(<<"y">>, CompC, V1, IdB)>>) @@
                   (CompC :> <<>>)),
   cvs |-> OneRoot]
\* root -> [o/c, o-c]
Slashes ==
  [repo |-> RepoOf({CompR, CompC, CompD},
                   (CompR :> <<Ref(<<"x">>, CompC, V1, NoIdentity),
                               Ref(<<"y">>, CompD, V1, NoIdentity)>>) @@
                   (CompC :> <<>>) @@ (CompD :> <<>>)),
   cvs |-> OneRoot]
\* root -> c -> root
Cycle ==
  [repo |-> RepoOf({CompR, CompC},
                   (CompR :> <<Ref(<<"x">>, CompC, V1, NoIdentity)>>) @@
                   (CompC :> <<Ref(<<"y">>, CompR, V1, NoIdentity)>>)),
   cvs |-> OneRoot]
\* two RootIntents of one namespace: r1 tracks root -> c, r2 tracks c
Shared ==
  [repo |-> RepoOf({CompR, CompC},
                   (CompR :> <<Ref(<<"x">>, CompC, V1, NoIdentity)>>) @@
                   (CompC :> <<>>)),
   cvs |-> TwoRoots]

Scenarios == {Chain, Diamond, Twins, Slashes, Cycle, Shared}

\* ---------------------------------------------------------------- state
VARIABLES
  repo,    \* the OCM repository: component name -> current descriptor
  cvs,     \* API server: the ComponentVersion (RootIntent) objects
  store,   \* API server: the ComponentDescriptor objects
  run,     \* per RootIntent: the Reconcile invocation in progress or last ended
  calm     \* per RootIntent, kept for the idempotence property: clean, nothing
           \* but its own reconcile acted since its invocation started; settled,
           \* its last invocation completed clean and nothing has acted since

vars == <<repo, cvs, store, run, calm>>

\* one activation of parseReferences: its references, loop index, result so
\* far and the Reference waiting for the nested call to return
Frame(refs) == [refs |-> refs, i |-> 1, result |-> <<>>, reference |-> NoReference]

NewRun(n) ==
  [pc |-> "idle", n |-> n, obj |-> ComponentVersion(FALSE, <<>>),
   vok |-> FALSE, verr |-> FALSE,
   cv |-> NoDesc, descriptor |-> NoDescriptor, tree |-> NoReference,
   stack |-> <<>>, rcv |-> NoDesc,
   wrote |-> <<>>, fetched |-> <<>>, named |-> {}, patched |-> FALSE,
   res |-> NoResult]

\* return from Reconcile
End(rn, requeueAfter, err) ==
  [rn EXCEPT !.pc = "done", !.res = Result(requeueAfter, err),
             !.cv = NoDesc, !.descriptor = NoDescriptor, !.tree = NoReference,
             !.stack = <<>>, !.rcv = NoDesc]

Init ==
  /\ \E s \in Scenarios : repo = s.repo /\ cvs = s.cvs
  /\ store = {}
  /\ run = [r \in Roots |-> NewRun(0)]
  /\ calm = [r \in Roots |-> [clean |-> TRUE, settled |-> FALSE]]

\* bookkeeping of calm for a step of r's reconcile ending in rn
OwnStep(r, rn, storeChanged) ==
  [q \in Roots |->
     IF q = r
       THEN LET clean == calm[r].clean \/ rn.n # run[r].n
            IN [clean |-> clean,
                settled |-> IF rn.pc = "done" THEN clean /\ rn.res.err = "nil"
                            ELSE calm[r].settled]
       ELSE IF storeChanged THEN [clean |-> FALSE, settled |-> FALSE] ELSE calm[q]]

\* bookkeeping of calm for a step of the environment
Disturbed == [q \in Roots |-> [clean |-> FALSE, settled |-> FALSE]]

\* Reconcile invocations so far
RECURSIVE Invocations(_)
Invocations(rs) ==
  IF rs = {} THEN 0
  ELSE LET r == CHOOSE q \in rs : TRUE IN run[r].n + Invocations(rs \ {r})

\* ------------------------------------------------------------- Reconcile
\* r.Client.Get of the RootIntent
StartNotFoundIsError(r) ==
  /\ run[r].pc \in {"idle", "done"}
  /\ cvs[r].generation > 0
  /\ Invocations(Roots) < MaxRuns
  /\ \E getErr \in BOOLEAN :
       LET rn == NewRun(run[r].n + 1)
           nx == IF ~cvs[r].exists \/ getErr THEN End(rn, 0, "get")
                 ELSE [rn EXCEPT !.pc = "verify", !.obj = cvs[r]]
       IN /\ run' = [run EXCEPT ![r] = nx]
          /\ calm' = OwnStep(r, nx, FALSE)
  /\ UNCHANGED <<repo, cvs, store>>

Start(r) ==
  /\ run[r].pc \in {"idle", "done"}
  /\ cvs[r].generation > 0
  /\ Invocations(Roots) < MaxRuns
  /\ \E getErr \in BOOLEAN :
       LET rn == NewRun(run[r].n + 1)
           nx == IF ~cvs[r].exists THEN End(rn, 0, "nil")
                 ELSE IF getErr THEN End(rn, 0, "get")
                 ELSE [rn EXCEPT !.pc = "verify", !.obj = cvs[r]]
       IN /\ run' = [run EXCEPT ![r] = nx]
          /\ calm' = OwnStep(r, nx, FALSE)
  /\ UNCHANGED <<repo, cvs, store>>

\* what Reconcile makes of VerifyComponent's (ok, err)
VerifyOutcomeNoOkCheck(ok, err) == IF err THEN "verify" ELSE "nil"

VerifyOutcome(ok, err) ==
  IF err THEN "verify" ELSE IF ~ok THEN "mismatch" ELSE "nil"

\* r.OCMClient.VerifyComponent
Verify(r) ==
  /\ run[r].pc = "verify"
  /\ \E ok \in BOOLEAN, err \in BOOLEAN :
       LET rn == [run[r] EXCEPT !.vok = ok, !.verr = err]
           out == VerifyOutcome(ok, err)
           nx == IF out = "nil" THEN [rn EXCEPT !.pc = "fetch"]
                 ELSE End(rn, GetRequeueAfter(rn.obj), out)
       IN /\ run' = [run EXCEPT ![r] = nx]
          /\ calm' = OwnStep(r, nx, FALSE)
  /\ UNCHANGED <<repo, cvs, store>>

\* ocm repository lookup behind GetComponentVersion
InRepo(name, version) == name \in DOMAIN repo /\ repo[name].version = version

\* controllerutil.SetOwnerReference: upsert of the owner in the owner references
SetOwnerReferenceNone(owner, owners) == owners

SetOwnerReference(owner, owners) == owners \cup {owner}

\* client.Get of a ComponentDescriptor: the stored objects of that key
Stored(ns, name) == {d \in store : d.ns = ns /\ d.name = name}

\* result = append(result, reference)
PrependResult(result, reference) == <<reference>> \o result

AppendResult(result, reference) == Append(result, reference)

\* the returns of parseReferences that need no external call: a finished loop
\* returns its result, which the caller nests under its pending Reference,
\* appends, and moves on to its next reference
RECURSIVE Unwind(_)
Unwind(stack) ==
  LET top == stack[Len(stack)] IN
  IF top.i <= Len(top.refs) THEN [stack |-> stack, out |-> <<>>, done |-> FALSE]
  ELSE IF Len(stack) = 1 THEN [stack |-> <<>>, out |-> top.result, done |-> TRUE]
  ELSE LET parent == stack[Len(stack) - 1]
           reference == [parent.reference EXCEPT !.references = top.result]
           back == [parent EXCEPT !.result = AppendResult(@, reference),
                                  !.i = @ + 1, !.reference = NoReference]
       IN Unwind(Append(SubSeq(stack, 1, Len(stack) - 2), back))

\* continue up to the next external call: the next child's fetch, or, when the
\* outermost parseReferences has returned, the status patch
Resume(rn) ==
  LET u == Unwind(rn.stack) IN
  IF u.done
    THEN [rn EXCEPT !.stack = <<>>, !.tree.references = u.out, !.pc = "patch",
                    !.descriptor = NoDescriptor, !.rcv = NoDesc]
    ELSE [rn EXCEPT !.stack = u.stack, !.pc = "cfetch",
                    !.descriptor = NoDescriptor, !.rcv = NoDesc]

\* reconcile after the root's CreateOrUpdate: the root Reference, the expand
\* switch, the outermost parseReferences call
AfterRootUpsert(rn) ==
  LET cd == ConvertFrom(rn.cv)
      componentDescriptor ==
        Reference(cd.name, cd.version, rn.descriptor.name, rn.descriptor.ns,
                  NoIdentity, <<>>)
  IN IF ~rn.obj.spec.expand THEN End(rn, GetRequeueAfter(rn.obj), "nil")
     ELSE Resume([rn EXCEPT !.tree = componentDescriptor,
                            !.stack = <<Frame(rn.cv.references)>>])

\* parseReferences after a child's CreateOrUpdate: the child's Reference, the
\* nested call when the child has references, the append
AfterChildUpsertVisitedOnce(rn) ==
  LET top == rn.stack[Len(rn.stack)]
      ref == top.refs[top.i]
      reference ==
        Reference(ref.name, ref.version, rn.descriptor.name, rn.descriptor.ns,
                  ref.extraIdentity, <<>>)
      visits == {k \in DOMAIN rn.fetched : rn.fetched[k] = <<ref.componentName, ref.version>>}
  IN IF Len(rn.rcv.references) > 0 /\ Cardinality(visits) <= 1
       THEN Resume([rn EXCEPT !.stack =
              Append([@ EXCEPT ![Len(@)].reference = reference],
                     Frame(rn.rcv.references))])
       ELSE Resume([rn EXCEPT !.stack[Len(rn.stack)] =
              [top EXCEPT !.result = AppendResult(@, reference), !.i = @ + 1]])

AfterChildUpsert(rn) ==
  LET top == rn.stack[Len(rn.stack)]
      ref == top.refs[top.i]
      reference ==
        Reference(ref.name, ref.version, rn.descriptor.name, rn.descriptor.ns,
                  ref.extraIdentity, <<>>)
  IN IF Len(rn.rcv.references) > 0
       THEN Resume([rn EXCEPT !.stack =
              Append([@ EXCEPT ![Len(@)].reference = reference],
                     Frame(rn.rcv.references))])
       ELSE Resume([rn EXCEPT !.stack[Len(rn.stack)] =
              [top EXCEPT !.result = AppendResult(@, reference), !.i = @ + 1]])

\* the mutate function of the root's CreateOrUpdate
MutateRootAlwaysOwner(r, descriptor, cd) ==
  [descriptor EXCEPT
     !.owners = SetOwnerReference(r, @),
     !.spec = [ComponentVersionSpec |-> cd.Spec, Version |-> cd.version]]

MutateRoot(r, descriptor, cd) ==
  [descriptor EXCEPT
     !.owners = IF descriptor.rv = 0 THEN SetOwnerReference(r, @) ELSE @,
     !.spec = [ComponentVersionSpec |-> cd.Spec, Version |-> cd.version]]

\* reconcile: GetComponentVersion of the root, conversion, object name
FetchRoot(r) ==
  /\ run[r].pc = "fetch"
  /\ \E fault \in {"none", "fetch", "convert", "name"} :
       LET rn == run[r]
           obj == rn.obj
           found == InRepo(obj.spec.component, obj.spec.version)
           cv == IF found THEN repo[obj.spec.component] ELSE NoDesc
           cd == ConvertFrom(cv)
           componentName == constructComponentName(cd.name, cd.version, NoIdentity)
           asked == [rn EXCEPT !.fetched = Append(@, <<obj.spec.component, obj.spec.version>>)]
           nx == IF fault = "fetch" \/ ~found
                   THEN End(asked, GetRequeueAfter(obj), "fetch")
                 ELSE IF fault = "convert" THEN End(asked, 0, "convert")
                 ELSE IF fault = "name" THEN End(asked, GetRequeueAfter(obj), "name")
                 ELSE [asked EXCEPT
                         !.pc = "get", !.cv = cv,
                         !.named = @ \cup {[triple |-> <<cd.name, cd.version, NoIdentity>>,
                                            key |-> componentName]},
                         !.descriptor = Descriptor(obj.ns, componentName, {}, NoSpec, 0)]
       IN /\ run' = [run EXCEPT ![r] = nx]
          /\ calm' = OwnStep(r, nx, FALSE)
  /\ UNCHANGED <<repo, cvs, store>>

\* CreateOrUpdate of the root descriptor: its Get, the mutate function, and the
\* comparison that decides between no call, Create and Update
RootGet(r) ==
  /\ run[r].pc = "get"
  /\ \E fault \in {"none", "get", "owner"} :
       LET rn == run[r]
           cd == ConvertFrom(rn.cv)
           hit == Stored(rn.descriptor.ns, rn.descriptor.name)
           existing == IF hit = {} THEN rn.descriptor ELSE CHOOSE d \in hit : TRUE
           mutated == MutateRoot(r, existing, cd)
           nx == IF fault = "get" \/ (fault = "owner" /\ hit = {})
                   THEN End(rn, GetRequeueAfter(rn.obj), "upsert")
                 ELSE IF hit = {} THEN [rn EXCEPT !.pc = "create", !.descriptor = mutated]
                 ELSE IF mutated = existing
                   THEN AfterRootUpsert([rn EXCEPT !.descriptor = mutated])
                 ELSE [rn EXCEPT !.pc = "update", !.descriptor = mutated]
       IN /\ run' = [run EXCEPT ![r] = nx]
          /\ calm' = OwnStep(r, nx, FALSE)
  /\ UNCHANGED <<repo, cvs, store>>

\* client.Create: AlreadyExists when the key was taken meanwhile
RootCreate(r) ==
  /\ run[r].pc = "create"
  /\ \E fault \in {"none", "create"} :
       LET rn == run[r]
           taken == Stored(rn.descriptor.ns, rn.descriptor.name) # {}
           created == [rn.descriptor EXCEPT !.rv = 1,
                                            !.uid = <<r, rn.n, Len(rn.wrote)>>]
           fail == fault = "create" \/ taken
           nx == IF fail THEN End(rn, GetRequeueAfter(rn.obj), "upsert")
                 ELSE AfterRootUpsert([rn EXCEPT !.descriptor = created,
                                                 !.wrote = Append(@, created.name)])
       IN /\ run' = [run EXCEPT ![r] = nx]
          /\ store' = IF fail THEN store ELSE store \cup {created}
          /\ calm' = OwnStep(r, nx, ~fail)
  /\ UNCHANGED <<repo, cvs>>

\* client.Update: NotFound when the object is gone, Conflict when its
\* resourceVersion or UID is no longer the one read
RootUpdate(r) ==
  /\ run[r].pc = "update"
  /\ \E fault \in {"none", "update"} :
       LET rn == run[r]
           hit == Stored(rn.descriptor.ns, rn.descriptor.name)
           current == {d \in hit : d.rv = rn.descriptor.rv /\ d.uid = rn.descriptor.uid}
           updated == [rn.descriptor EXCEPT !.rv = @ + 1]
           fail == fault = "update" \/ current = {}
           nx == IF fail THEN End(rn, GetRequeueAfter(rn.obj), "upsert")
                 ELSE AfterRootUpsert([rn EXCEPT !.descriptor = updated,
                                                 !.wrote = Append(@, updated.name)])
       IN /\ run' = [run EXCEPT ![r] = nx]
          /\ store' = IF fail THEN store ELSE (store \ hit) \cup {updated}
          /\ calm' = OwnStep(r, nx, ~fail)
  /\ UNCHANGED <<repo, cvs>>

\* the object name parseReferences gives the descriptor of a reference
ChildNameByRefName(ref) ==
  constructComponentName(ref.name, ref.version, ref.extraIdentity)

ChildName(ref) ==
  constructComponentName(ref.componentName, ref.version, ref.extraIdentity)

\* an error inside parseReferences: every activation returns it, and reconcile
\* returns "failed to get references" with RequeueAfter
SkipReference(rn) ==
  Resume([rn EXCEPT !.stack[Len(rn.stack)].i = @ + 1])

AbortWalkNoRequeue(rn) == End(rn, 0, "refs")

AbortWalk(rn) == End(rn, GetRequeueAfter(rn.obj), "refs")

\* parseReferences: GetComponentVersion of the current reference, conversion,
\* object name, the descriptor object with its Spec and owner reference
ChildFetch(r) ==
  /\ run[r].pc = "cfetch"
  /\ Len(run[r].stack) <= MaxDepth
  /\ \E fault \in {"none", "fetch", "convert", "name", "owner"} :
       LET rn == run[r]
           parent == rn.obj
           top == rn.stack[Len(rn.stack)]
           ref == top.refs[top.i]
           found == InRepo(ref.componentName, ref.version)
           rcv == IF found THEN repo[ref.componentName] ELSE NoDesc
           cd == ConvertFrom(rcv)
           componentName == ChildName(ref)
           descriptor ==
             Descriptor(parent.ns, componentName, SetOwnerReference(r, {}),
                        [ComponentVersionSpec |-> cd.Spec, Version |-> ref.version], 0)
           asked == [rn EXCEPT !.fetched = Append(@, <<ref.componentName, ref.version>>)]
           nx == IF fault # "none" \/ ~found
                   THEN AbortWalk(asked)
                 ELSE [asked EXCEPT
                         !.pc = "cget", !.rcv = rcv, !.descriptor = descriptor,
                         !.named = @ \cup
                           {[triple |-> <<ref.componentName, ref.version, ref.extraIdentity>>,
                             key |-> componentName]}]
       IN /\ run' = [run EXCEPT ![r] = nx]
          /\ calm' = OwnStep(r, nx, FALSE)
  /\ UNCHANGED <<repo, cvs, store>>

\* a walk that goes on from the Get without creating the missing descriptor
ChildGetNoCreate(r) ==
  /\ run[r].pc = "cget"
  /\ LET rn == run[r]
         hit == Stored(rn.descriptor.ns, rn.descriptor.name)
         existing == IF hit = {} THEN rn.descriptor ELSE CHOOSE d \in hit : TRUE
         nx == AfterChildUpsert([rn EXCEPT !.descriptor = existing])
     IN /\ run' = [run EXCEPT ![r] = nx]
        /\ calm' = OwnStep(r, nx, FALSE)
  /\ UNCHANGED <<repo, cvs, store>>

\* CreateOrUpdate of a child descriptor: its Get loads the stored object over
\* the one built; the mutate function changes nothing, so a stored object is
\* left as it is and only a missing one leads to Create
ChildGet(r) ==
  /\ run[r].pc = "cget"
  /\ \E fault \in {"none", "get"} :
       LET rn == run[r]
           hit == Stored(rn.descriptor.ns, rn.descriptor.name)
           existing == CHOOSE d \in hit : TRUE
           nx == IF fault = "get" THEN AbortWalk(rn)
                 ELSE IF hit = {} THEN [rn EXCEPT !.pc = "ccreate"]
                 ELSE AfterChildUpsert([rn EXCEPT !.descriptor = existing])
       IN /\ run' = [run EXCEPT ![r] = nx]
          /\ calm' = OwnStep(r, nx, FALSE)
  /\ UNCHANGED <<repo, cvs, store>>

\* client.Create of a child descriptor
ChildCreate(r) ==
  /\ run[r].pc = "ccreate"
  /\ \E fault \in {"none", "create"} :
       LET rn == run[r]
           taken == Stored(rn.descriptor.ns, rn.descriptor.name) # {}
           created == [rn.descriptor EXCEPT !.rv = 1,
                                            !.uid = <<r, rn.n, Len(rn.wrote)>>]
           fail == fault = "create" \/ taken
           nx == IF fail THEN AbortWalk(rn)
                 ELSE AfterChildUpsert([rn EXCEPT !.descriptor = created,
                                                  !.wrote = Append(@, created.name)])
       IN /\ run' = [run EXCEPT ![r] = nx]
          /\ store' = IF fail THEN store ELSE store \cup {created}
          /\ calm' = OwnStep(r, nx, ~fail)
  /\ UNCHANGED <<repo, cvs>>

\* obj.Status.ComponentDescriptor = componentDescriptor
SetStatusAppending(status, componentDescriptor) ==
  [status EXCEPT !.componentDescriptor =
     [componentDescriptor EXCEPT
        !.references = status.componentDescriptor.references \o @]]

SetStatus(status, componentDescriptor) ==
  [status EXCEPT !.componentDescriptor = componentDescriptor]

\* the merge patch of one object: the fields that differ between the object
\* the helper was created with and the object now, set on the stored object
MergeFields(stored, before, after) ==
  [f \in DOMAIN stored |-> IF after[f] # before[f] THEN after[f] ELSE stored[f]]

\* patchHelper.Patch of the status subresource
PatchStatusOverwrite(stored, before, after) == after

PatchStatus(stored, before, after) ==
  [componentDescriptor |->
     MergeFields(stored.componentDescriptor, before.componentDescriptor,
                 after.componentDescriptor),
   verified |-> IF after.verified # before.verified THEN after.verified
                ELSE stored.verified]

\* reconcile: patch.NewHelper, the status assignment, patchHelper.Patch
Patch(r) ==
  /\ run[r].pc = "patch"
  /\ \E fault \in {"none", "helper", "patch"} :
       LET rn == run[r]
           before == rn.obj.status
           after == SetStatus(before, rn.tree)
           fail == \/ fault = "patch"
                   \/ (after # before /\ ~cvs[r].exists)
           sent == fault = "none" /\ ~fail /\ after # before
           nx == IF fault = "helper" THEN End(rn, GetRequeueAfter(rn.obj), "helper")
                 ELSE IF fail THEN End(rn, GetRequeueAfter(rn.obj), "patch")
                 ELSE End([rn EXCEPT !.patched = sent], GetRequeueAfter(rn.obj), "nil")
       IN /\ run' = [run EXCEPT ![r] = nx]
          /\ cvs' = IF sent
                      THEN [cvs EXCEPT ![r].status = PatchStatus(@, before, after)]
                      ELSE cvs
          /\ calm' = OwnStep(r, nx, FALSE)
  /\ UNCHANGED <<repo, store>>

\* ----------------------------------------------------------- environment
\* events of the environment so far: revisions published, spec edits, status
\* edits, deletions
RECURSIVE Edits(_)
Edits(rs) ==
  IF rs = {} THEN 0
  ELSE LET r == CHOOSE q \in rs : TRUE
       IN (IF cvs[r].generation > 1 THEN cvs[r].generation - 1 ELSE 0)
            + Edits(rs \ {r})

RECURSIVE Revisions(_)
Revisions(cs) ==
  IF cs = {} THEN 0
  ELSE LET c == CHOOSE d \in cs : TRUE IN repo[c].rev + Revisions(cs \ {c})

Events ==
  Revisions(DOMAIN repo)
    + Edits(Roots)
    + Cardinality({r \in Roots : cvs[r].status.verified})
    + Cardinality({r \in Roots : cvs[r].generation > 0 /\ ~cvs[r].exists})

\* the repository publishes new content for a component version
UpstreamChange(c) ==
  /\ c \in DOMAIN repo
  /\ Events < MaxEvents
  /\ repo' = [repo EXCEPT ![c].rev = @ + 1]
  /\ calm' = Disturbed
  /\ UNCHANGED <<cvs, store, run>>

\* an external actor switches spec.references.expand of a RootIntent
EditRoot(r) ==
  /\ cvs[r].exists
  /\ Events < MaxEvents
  /\ cvs' = [cvs EXCEPT ![r].generation = @ + 1, ![r].spec.expand = ~@]
  /\ calm' = Disturbed
  /\ UNCHANGED <<repo, store, run>>

\* another writer of the status subresource sets status.verified, a field this
\* reconciler never assigns
EditStatus(r) ==
  /\ cvs[r].exists
  /\ ~cvs[r].status.verified
  /\ Events < MaxEvents
  /\ cvs' = [cvs EXCEPT ![r].status.verified = TRUE]
  /\ calm' = Disturbed
  /\ UNCHANGED <<repo, store, run>>

\* an external actor deletes a RootIntent; the API server's garbage collector
\* deletes the descriptors whose owner references name no remaining object
DeleteRoot(r) ==
  /\ cvs[r].exists
  /\ Events < MaxEvents
  /\ cvs' = [cvs EXCEPT ![r].exists = FALSE]
  /\ store' = {d \in store : d.owners = {} \/ d.owners \ {r} # {}}
  /\ calm' = Disturbed
  /\ UNCHANGED <<repo, run>>

Next ==
  \/ \E r \in Roots : Start(r)
  \/ \E r \in Roots : Verify(r)
  \/ \E r \in Roots : FetchRoot(r)
  \/ \E r \in Roots : RootGet(r)
  \/ \E r \in Roots : RootCreate(r)
  \/ \E r \in Roots : RootUpdate(r)
  \/ \E r \in Roots : ChildFetch(r)
  \/ \E r \in Roots : ChildGet(r)
  \/ \E r \in Roots : ChildCreate(r)
  \/ \E r \in Roots : Patch(r)
  \/ \E c \in Components : UpstreamChange(c)
  \/ \E r \in Roots : EditRoot(r)
  \/ \E r \in Roots : DeleteRoot(r)

Spec == Init /\ [][Next]_vars

\* one RootIntent whose status subresource has a second writer
InitEdits == Init /\ cvs = OneRoot

NextEdits ==
  \/ Next
  \/ \E r \in Roots : EditStatus(r)

SpecEdits == InitEdits /\ [][NextEdits]_vars

\* ---------------------------------------------------------------- claims
\* the invocation of r has returned / has returned without error after the
\* verification gate let it through
Returned(r) == run[r].pc = "done"
Completed(r) == Returned(r) /\ run[r].res.err = "nil" /\ run[r].fetched # <<>>

\* no RootIntent has been deleted
NoRootDeleted == \A r \in Roots : cvs[r].generation > 0 => cvs[r].exists

\* the object names the invocation of r computed for the triple t
KeysFor(r, t) == {p.key : p \in {q \in run[r].named : q.triple = t}}

\* the stored descriptors of r's namespace with one of the names ks
Records(r, ks) == {d \in store : d.ns = cvs[r].ns /\ d.name \in ks}

\* the Reference list a complete expansion of refs yields
RECURSIVE TreeOf(_, _)
TreeOf(refs, depth) ==
  [i \in 1..Len(refs) |->
     LET ref == refs[i] IN
     Reference(ref.name, ref.version,
               constructComponentName(ref.componentName, ref.version, ref.extraIdentity),
               Namespace, ref.extraIdentity,
               IF depth = 0 \/ ref.componentName \notin DOMAIN repo THEN <<>>
               ELSE TreeOf(repo[ref.componentName].references, depth - 1))]

\* the root Reference of a complete expansion for the RootIntent r
CompleteTree(r) ==
  LET d == repo[cvs[r].spec.component] IN
  Reference(d.name, d.version, constructComponentName(d.name, d.version, NoIdentity),
            cvs[r].ns, NoIdentity, TreeOf(d.references, MaxDepth))

\* C1: fail-closed verification. An invocation fetches from the repository or
\* changes the store only after its VerifyComponent call returned ok = true and
\* no error; a VerifyComponent call that returns an error or ok = false ends the
\* invocation with the store unchanged and nothing fetched or written.
FailClosedVerification ==
  [][\A r \in Roots :
       /\ (/\ run'[r].n = run[r].n
           /\ \/ run'[r].fetched # run[r].fetched
              \/ run'[r].wrote # run[r].wrote
              \/ (run'[r] # run[r] /\ store' # store))
          => run[r].vok /\ ~run[r].verr
       /\ (run[r].pc = "verify" /\ run'[r] # run[r] /\ ~(run'[r].vok /\ ~run'[r].verr))
          => /\ run'[r].pc = "done"
             /\ run'[r].res.err # "nil"
             /\ store' = store
             /\ run'[r].fetched = <<>>
             /\ run'[r].wrote = <<>>]_vars

\* a second invocation is stopped by a signature mismatch and the descriptors of
\* the first are still stored
FailClosedWitness ==
  \E r \in Roots :
    /\ Returned(r) /\ run[r].res.err = "mismatch" /\ run[r].n = 2
    /\ run[r].fetched = <<>> /\ store # {}

\* C2: at most one node per identity. When an invocation has completed (and no
\* RootIntent was deleted), every (component name, version, extra identity) it
\* reached, on however many paths, was given one object name, and the store
\* holds exactly one ComponentDescriptor for it.
OneNodePerIdentity ==
  \A r \in Roots :
    (Completed(r) /\ NoRootDeleted) =>
      \A p \in run[r].named :
        Cardinality(Records(r, KeysFor(r, p.triple))) = 1

\* the committed tree holds the same descriptor on two paths, under two
\* reference names
OneNodePerIdentityWitness ==
  \E r \in Roots :
    LET refs == cvs[r].status.componentDescriptor.references IN
    /\ Completed(r) /\ NoRootDeleted
    /\ Len(refs) = 2
    /\ Len(refs[1].references) = 1
    /\ refs[1].references[1].componentDescriptorRef = refs[2].componentDescriptorRef
    /\ refs[1].references[1].name # refs[2].name
    /\ Cardinality(Records(r, {refs[2].componentDescriptorRef.name})) = 1

\* C3: identity is part of the key. Two triples (component name, version, extra
\* identity) that differ get different object names.
DistinctTriplesDistinctKeys ==
  \A r \in Roots :
    \A p, q \in run[r].named : p.triple # q.triple => p.key # q.key

\* the payload and owner per key, without the resourceVersion
Nodes == {[ns |-> d.ns, name |-> d.name, spec |-> d.spec, owners |-> d.owners] : d \in store}

\* C4: reconcile idempotence. Once an invocation for a RootIntent has completed
\* undisturbed (no upstream change, spec edit, deletion or write by another
\* RootIntent's reconcile since it started), no step of a following invocation
\* for the same RootIntent changes the keys, payloads or owners in the store or
\* the RootIntent's status.
ReconcileIdempotent ==
  [][\A r \in Roots :
       (calm[r].settled /\ run'[r] # run[r]) =>
         /\ Nodes' = Nodes
         /\ cvs'[r].status = cvs[r].status]_vars

\* a second, undisturbed invocation has expanded the references again and has
\* written nothing
ReconcileIdempotentWitness ==
  \E r \in Roots :
    /\ calm[r].settled /\ Completed(r) /\ run[r].n = 2
    /\ Len(run[r].fetched) > 1 /\ run[r].wrote = <<>> /\ ~run[r].patched
    /\ cvs[r].status.componentDescriptor.references # <<>>

\* C5: no partial graph in status. An invocation that returns an error leaves
\* the RootIntent's status as it was, keeping the descriptors it wrote, and a
\* status that changes becomes the complete tree of the root's references.
NoPartialGraph ==
  [][\A r \in Roots :
       /\ (run'[r] # run[r] /\ run'[r].pc = "done" /\ run'[r].res.err # "nil")
          => cvs'[r].status = cvs[r].status /\ store' = store
       /\ cvs'[r].status # cvs[r].status
          => /\ run[r].pc = "patch" /\ run'[r].res.err = "nil"
             /\ cvs'[r].status.componentDescriptor = CompleteTree(r)]_vars

\* the walk failed after the root and a child had been written; the status still
\* holds no tree
NoPartialGraphWitness ==
  \E r \in Roots :
    /\ Returned(r) /\ run[r].res.err = "refs"
    /\ Len(run[r].wrote) >= 2 /\ Len(run[r].fetched) >= 3
    /\ cvs[r].status = NoStatus

\* C6: the resolved tree mirrors the reference structure. After a completed
\* invocation with expand = true the store holds one descriptor for the root and
\* one per referenced component reached, and the status holds the complete tree.
StoreMirrorsGraph ==
  \A r \in Roots :
    (Completed(r) /\ run[r].obj.spec.expand /\ NoRootDeleted) =>
      /\ Cardinality(Records(r, {p.key : p \in run[r].named}))
           = Cardinality({<<p.triple[1], p.triple[2]>> : p \in run[r].named})
      /\ cvs[r].status.componentDescriptor = CompleteTree(r)

\* result lists the references of refs in their order, level by level
RECURSIVE InOrder(_, _)
InOrder(refs, result) ==
  /\ Len(result) <= Len(refs)
  /\ \A j \in 1..Len(result) :
       /\ result[j].name = refs[j].name
       /\ result[j].version = refs[j].version
       /\ result[j].extraIdentity = refs[j].extraIdentity
       /\ \/ result[j].references = <<>>
          \/ LET below == repo[refs[j].componentName].references IN
             Len(result[j].references) = Len(below) /\ InOrder(below, result[j].references)

\* C7: order preservation. In every activation of parseReferences the result
\* built so far lists the references handled so far in declared order, nested
\* lists included, and so does the list handed to the status patch.
OrderPreserved ==
  \A r \in Roots :
    /\ \A k \in 1..Len(run[r].stack) :
         LET f == run[r].stack[k] IN
         Len(f.result) = f.i - 1 /\ InOrder(f.refs, f.result)
    /\ run[r].pc = "patch" =>
         /\ Len(run[r].tree.references) = Len(run[r].cv.references)
         /\ InOrder(run[r].cv.references, run[r].tree.references)

\* a root with two references is about to be patched with both, in order
OrderPreservedWitness ==
  \E r \in Roots :
    /\ run[r].pc = "patch"
    /\ Len(run[r].tree.references) = 2
    /\ run[r].tree.references[1].name # run[r].tree.references[2].name
    /\ run[r].tree.references[1].references # <<>>

\* C8: the verification outcome is recorded. After a completed invocation that
\* passed verification and patched the status, the RootIntent's status has
\* verified = true.
VerifiedRecorded ==
  \A r \in Roots :
    (Completed(r) /\ run[r].patched /\ cvs[r].exists) => cvs[r].status.verified

\* C9: a verification failure is observable on status. When the invocation for
\* a RootIntent whose status was still empty ends on ok = false, the status is no
\* longer empty.
MismatchRecorded ==
  \A r \in Roots :
    (Returned(r) /\ run[r].res.err = "mismatch" /\ run[r].obj.status = NoStatus
       /\ cvs[r].exists)
      => cvs[r].status # NoStatus

\* C10: expand = false resolves the root only. After a completed invocation
\* that read expand = false, the invocation has fetched the root alone, has
\* written at most the root's descriptor, and the status tree has no child
\* references.
ExpandFalseRootOnly ==
  \A r \in Roots :
    (Completed(r) /\ ~run[r].obj.spec.expand /\ cvs[r].exists) =>
      /\ Len(run[r].fetched) = 1
      /\ Len(run[r].wrote) <= 1
      /\ cvs[r].status.componentDescriptor.references = <<>>

\* C11: every successful reconcile commits status. After a completed invocation
\* that read expand = false and holds the root's descriptor in the store, the
\* RootIntent's status holds the root Reference pointing at that descriptor.
ExpandFalseCommitsStatus ==
  \A r \in Roots :
    (Completed(r) /\ ~run[r].obj.spec.expand /\ cvs[r].exists) =>
      LET key == constructComponentName(run[r].obj.spec.component,
                                        run[r].obj.spec.version, NoIdentity)
      IN Records(r, {key}) # {} =>
           cvs[r].status.componentDescriptor.componentDescriptorRef.name = key

\* the names of the stored descriptors
StoredNames == {<<d.ns, d.name>> : d \in store}

\* C12: flat ownership. Every ComponentDescriptor that a step of the reconcile
\* of a RootIntent adds to the store, for the root or for a reference at any
\* depth, has that RootIntent as its one owner.
FlatOwnership ==
  [][\A d \in store' :
       <<d.ns, d.name>> \notin StoredNames =>
         \E r \in Roots : run'[r] # run[r] /\ d.owners = {r} /\ d.ns = run[r].obj.ns]_vars

\* a completed invocation has stored the root, a child and a grandchild, created
\* at nesting depths 0, 1 and 2, each owned by the RootIntent
FlatOwnershipWitness ==
  \E r \in Roots :
    /\ Completed(r) /\ Len(run[r].wrote) = 3
    /\ Len(cvs[r].status.componentDescriptor.references) = 1
    /\ Len(cvs[r].status.componentDescriptor.references[1].references) = 1
    /\ Cardinality(store) = 3
    /\ \A d \in store : d.owners = {r}

\* C13: ownership is set only on first creation. No step changes the owner
\* references of a ComponentDescriptor that is stored before and after it,
\* whichever RootIntent's reconcile reaches its name and on whichever path.
OwnersSetOnce ==
  [][\A d \in store : \A e \in store' :
       (e.ns = d.ns /\ e.name = d.name) => e.owners = d.owners]_vars

\* the reconcile of another RootIntent has updated, on its root path, a
\* descriptor created as a child of the first; the first is still its one owner
OwnersSetOnceWitness ==
  \E r, q \in Roots : \E d \in store :
    /\ r # q /\ d.owners = {r} /\ d.rv = 2
    /\ Completed(q) /\ run[q].wrote = <<d.name>>
    /\ d.name \in {p.key : p \in run[r].named}

\* the entries of r's invocation whose object name stands for one component
\* name only
Unshared(r) ==
  {p \in run[r].named :
     \A q \in run[r].named : q.key = p.key => q.triple[1] = p.triple[1]}

\* C14: payload refresh on re-resolution. After an invocation that completed
\* with expand = true while nothing else acted, every descriptor it reached, the
\* root's and every child's, holds the payload the repository currently serves
\* for its component, and there is one record per name.
PayloadRefreshed ==
  \A r \in Roots :
    (Completed(r) /\ calm[r].clean /\ run[r].obj.spec.expand /\ NoRootDeleted) =>
      \A p \in Unshared(r) :
        /\ Cardinality(Records(r, {p.key})) = 1
        /\ \A d \in Records(r, {p.key}) :
             d.spec.ComponentVersionSpec = ConvertFrom(repo[p.triple[1]]).Spec

\* the errors of a failed repository fetch (of the root, or inside the walk of
\* the references), a failed descriptor write and a failed status patch
Transient == {"fetch", "refs", "upsert", "helper", "patch"}

\* C15: transient failures abort with a retry after the interval. A step that
\* ends an invocation on a failed fetch, descriptor write or status patch
\* returns RequeueAfter equal to the interval of the RootIntent it read, which is
\* positive, and leaves every RootIntent as stored, status included.
TransientRequeued ==
  [][\A r \in Roots :
       (run'[r] # run[r] /\ run'[r].pc = "done" /\ run'[r].res.err \in Transient)
         => /\ run'[r].res.requeueAfter = GetRequeueAfter(run[r].obj)
            /\ run'[r].res.requeueAfter > 0
            /\ cvs' = cvs]_vars

\* the status patch failed after the root and a child had been written: the
\* invocation returned the interval and the status is as it was read
TransientRequeuedWitness ==
  \E r \in Roots :
    /\ Returned(r) /\ run[r].res = Result(TenMinutes, "patch")
    /\ Len(run[r].wrote) >= 2
    /\ cvs[r].status = run[r].obj.status

\* the components the descriptor of c refers to, and those reachable from them
Succ(c) ==
  {repo[c].references[i].componentName : i \in DOMAIN repo[c].references} \cap DOMAIN repo

RECURSIVE Reachable(_, _)
Reachable(cs, k) ==
  IF k = 0 THEN cs ELSE Reachable(cs \cup UNION {Succ(c) : c \in cs}, k - 1)

Below(c) == Reachable(Succ(c), Cardinality(DOMAIN repo))

\* the references reachable from c contain a cycle
Cyclic(c) == \E d \in {c} \cup Below(c) : d \in Below(d)

\* the GetComponentVersion calls a complete walk of refs makes (acyclic graphs)
RECURSIVE Calls(_)
Calls(refs) ==
  IF refs = <<>> THEN 0
  ELSE 1 + Calls(repo[Head(refs).componentName].references) + Calls(Tail(refs))

\* position of an invocation inside the walk: fetches made, then the place
\* between two fetches
Position(rn) ==
  3 * Len(rn.fetched)
    + (IF rn.pc = "cget" THEN 0 ELSE IF rn.pc = "ccreate" THEN 1 ELSE 2)

\* C16: no cycle guard. For every step of the walk of the references: when the
\* references reachable from the root contain a cycle, the step never hands a
\* tree to the status patch, and the invocation ends only on a failed call;
\* when they contain none, the step moves the walk forward, the fetches stay
\* within the number of paths of the graph, and the walk is never left at a
\* depth from where it cannot continue, so the walk ends.
NoCycleGuard ==
  [][\A r \in Roots :
       (run'[r] # run[r] /\ run[r].pc \in {"cfetch", "cget", "ccreate"}) =>
         IF Cyclic(run[r].obj.spec.component)
           THEN /\ run'[r].pc # "patch"
                /\ run'[r].pc = "done" => run'[r].res.err = "refs"
                /\ cvs'[r].status = cvs[r].status
           ELSE /\ Position(run'[r]) > Position(run[r])
                /\ Len(run'[r].fetched) <= 1 + Calls(repo[run[r].obj.spec.component].references)
                /\ run'[r].pc = "cfetch" => Len(run'[r].stack) <= MaxDepth]_vars

\* in a cycle the walk has come back to the root's component again and again,
\* is nested deeper than the depth explored, and nothing has reached the status
NoCycleGuardWitness ==
  \E r \in Roots :
    /\ run[r].pc = "cfetch" /\ Len(run[r].stack) = MaxDepth + 1
    /\ Cyclic(run[r].obj.spec.component)
    /\ Cardinality({k \in DOMAIN run[r].fetched :
                      run[r].fetched[k] = <<run[r].obj.spec.component,
                                            run[r].obj.spec.version>>}) >= 2
    /\ cvs[r].status = NoStatus

\* the pointers (componentDescriptorRef) of a Reference list, nested ones included
RECURSIVE TreeKeys(_)
TreeKeys(refs) ==
  UNION {{refs[i].componentDescriptorRef} \cup TreeKeys(refs[i].references) :
           i \in DOMAIN refs}

PointersOf(reference) ==
  {reference.componentDescriptorRef} \cup TreeKeys(reference.references)

\* C17: references point at existing nodes. In the state a status patch
\* leaves, every pointer of the committed tree, the root's and every nested
\* one, names a ComponentDescriptor that the store holds in the namespace of
\* the RootIntent.
ReferencesResolve ==
  [][\A r \in Roots :
       cvs'[r].status.componentDescriptor # cvs[r].status.componentDescriptor =>
         \A p \in PointersOf(cvs'[r].status.componentDescriptor) :
           /\ p.namespace = cvs[r].ns
           /\ \E d \in store' : d.ns = p.namespace /\ d.name = p.name]_vars

\* the write the invocation of r is about to make has lost a race: the name it
\* read as missing has been created, or the record it read has been updated
Conflict(r) ==
  LET rn == run[r]
      hit == Stored(rn.descriptor.ns, rn.descriptor.name)
  IN \/ rn.pc \in {"create", "ccreate"} /\ hit # {}
     \/ rn.pc = "update" /\ hit # {}
          /\ \A d \in hit : d.rv # rn.descriptor.rv \/ d.uid # rn.descriptor.uid

\* C18: write conflicts are retried, not fatal. A Create or Update that has
\* lost a race does not end the invocation with an error, and it does not put
\* the payload it was built with over the winner's record.
ConflictsRetried ==
  [][\A r \in Roots :
       (Conflict(r) /\ run'[r] # run[r]) =>
         /\ ~(run'[r].pc = "done" /\ run'[r].res.err # "nil")
         /\ store' = store]_vars

\* the failures of an invocation after it has read the RootIntent: verification
\* error, mismatch, fetch, conversion, name, descriptor write, walk, patch
Failures ==
  {"verify", "mismatch", "fetch", "convert", "name", "upsert", "refs", "helper", "patch"}

\* C19: no failure is dropped. An invocation that has ended on a failure has
\* returned RequeueAfter equal to the interval of the RootIntent, or has
\* patched the RootIntent's status.
NoFailureDropped ==
  \A r \in Roots :
    (Returned(r) /\ run[r].res.err \in Failures) =>
      \/ run[r].res.requeueAfter = GetRequeueAfter(run[r].obj)
      \/ run[r].patched

\* C20: the status commit is a merge. A status patch that is sent sets the
\* tree the invocation built and leaves everything else of the stored
\* RootIntent as it is stored: its spec and generation, edited or not since the
\* invocation read it, and status.verified, set or not by another writer since.
PatchMerges ==
  [][\A r \in Roots :
       (run[r].pc = "patch" /\ run'[r].patched) =>
         /\ cvs'[r].status.componentDescriptor = run[r].tree
         /\ cvs'[r].status.verified = cvs[r].status.verified
         /\ cvs'[r].spec = cvs[r].spec
         /\ cvs'[r].generation = cvs[r].generation
         /\ cvs'[r].exists = cvs[r].exists
         /\ \A q \in Roots \ {r} : cvs'[q] = cvs[q]]_vars

\* another writer set status.verified after the invocation had read the
\* RootIntent; the invocation has patched its tree and verified is still set
PatchMergesWitness ==
  \E r \in Roots :
    /\ Completed(r) /\ run[r].patched
    /\ ~run[r].obj.status.verified /\ cvs[r].status.verified
    /\ cvs[r].status.componentDescriptor.references # <<>>

\* the pointer p names a stored ComponentDescriptor
Resolves(p, records) == \E d \in records : d.ns = p.namespace /\ d.name = p.name

\* C21: cascade delete with shared nodes. The deletion of a RootIntent removes
\* every ComponentDescriptor it owns, and every pointer in the committed status
\* tree of another RootIntent that named a stored descriptor before the
\* deletion names one after it.
CascadeKeepsShared ==
  [][\A q \in Roots :
       (cvs[q].exists /\ ~cvs'[q].exists) =>
         /\ \A d \in store' : q \notin d.owners
         /\ \A r \in Roots \ {q} :
              cvs[r].exists =>
                \A p \in PointersOf(cvs[r].status.componentDescriptor) :
                  Resolves(p, store) => Resolves(p, store')]_vars

\* the depth-first pre-order of the references refs, to the given depth: for
\* each node the component and version fetched and the object name
RECURSIVE PreOrder(_, _)
PreOrder(refs, depth) ==
  IF refs = <<>> \/ depth = 0 THEN <<>>
  ELSE LET ref == Head(refs)
           node == [fetch |-> <<ref.componentName, ref.version>>,
                    key |-> constructComponentName(ref.componentName, ref.version,
                                                   ref.extraIdentity)]
           below == IF ref.componentName \in DOMAIN repo
                      THEN repo[ref.componentName].references ELSE <<>>
       IN <<node>> \o PreOrder(below, depth - 1) \o PreOrder(Tail(refs), depth)

\* the pre-order of the whole tree the invocation rn walks, root first
PreOrderOf(rn) ==
  LET c == rn.obj.spec.component
      v == rn.obj.spec.version
      root == [fetch |-> <<c, v>>, key |-> constructComponentName(c, v, NoIdentity)]
  IN <<root>> \o (IF rn.obj.spec.expand /\ c \in DOMAIN repo
                    THEN PreOrder(repo[c].references, MaxDepth) ELSE <<>>)

\* how many of the nodes fetched have been through their CreateOrUpdate: all
\* of them between two nodes and after the walk, all but the last otherwise
Upserted(rn) ==
  IF \/ rn.pc \in {"cfetch", "patch"}
     \/ rn.pc = "done" /\ rn.res.err \in {"nil", "helper", "patch"}
    THEN Len(rn.fetched)
    ELSE IF Len(rn.fetched) = 0 THEN 0 ELSE Len(rn.fetched) - 1

\* s is t with some elements left out
RECURSIVE IsSubSeq(_, _)
IsSubSeq(s, t) ==
  IF s = <<>> THEN TRUE
  ELSE IF t = <<>> THEN FALSE
  ELSE IF Head(s) = Head(t) THEN IsSubSeq(Tail(s), Tail(t))
  ELSE IsSubSeq(s, Tail(t))

\* C22: pre-order persistence. At every point of an invocation, ended or not,
\* the nodes fetched so far are an initial part of the depth-first pre-order
\* of the reference tree; each of them but the one in hand has been through its
\* CreateOrUpdate and (no RootIntent being deleted) is stored; and the
\* descriptors written are among those, in that order.
PreOrderPersistence ==
  \A r \in Roots :
    run[r].fetched # <<>> =>
      LET rn == run[r]
          pre == PreOrderOf(rn)
          n == Upserted(rn)
      IN /\ Len(rn.fetched) <= Len(pre)
         /\ \A k \in 1..Len(rn.fetched) : rn.fetched[k] = pre[k].fetch
         /\ IsSubSeq(rn.wrote, [k \in 1..n |-> pre[k].key])
         /\ NoRootDeleted =>
              \A k \in 1..n : Records(r, {pre[k].key}) # {}

\* an invocation aborted on the last node of the tree: the root, its first
\* reference and that reference's own reference are written, the second
\* reference of the root is not
PreOrderPersistenceWitness ==
  \E r \in Roots :
    /\ Returned(r) /\ run[r].res.err = "refs"
    /\ Len(run[r].fetched) = 4 /\ Len(PreOrderOf(run[r])) = 4
    /\ Len(run[r].wrote) = 3
    /\ run[r].wrote = [k \in 1..3 |-> PreOrderOf(run[r])[k].key]

\* C23: reconcile of a deleted root is a no-op. An invocation that starts when
\* the RootIntent of the request is not in the API server ends in that step
\* with no error and no requeue, has called neither the verifier nor the
\* repository, has written nothing, and leaves the repository, the RootIntents
\* and the ComponentDescriptors as they are.
DeletedRootNoOp ==
  [][\A r \in Roots :
       (run'[r].n # run[r].n /\ ~cvs[r].exists) =>
         /\ run'[r].pc = "done"
         /\ run'[r].res = Result(0, "nil")
         /\ ~run'[r].vok /\ ~run'[r].verr
         /\ run'[r].fetched = <<>> /\ run'[r].wrote = <<>> /\ ~run'[r].patched
         /\ store' = store /\ cvs' = cvs /\ repo' = repo]_vars

\* a RootIntent that had been reconciled was deleted, and the invocation for
\* it that followed has returned at once
DeletedRootNoOpWitness ==
  \E r \in Roots :
    /\ cvs[r].generation > 0 /\ ~cvs[r].exists /\ cvs[r].status # NoStatus
    /\ Returned(r) /\ run[r].n = 2 /\ run[r].res = Result(0, "nil")
    /\ run[r].fetched = <<>>

====
